---- MODULE Spec2Model ----
(***************************************************************************)
(* Workflow execution engine of the eDiscovery platform:                   *)
(*   backend/workflow_engine.py  (WorkflowExecutionEngine)                 *)
(*   backend/workflow_crud.py    (WorkflowInstanceCRUD)                    *)
(*   backend/server.py           (workflow instance endpoints)             *)
(*   backend/websocket_manager.py (notification sink)                      *)
(* Every coroutine is cut at its awaits: one action per awaited call.      *)
(*                                                                         *)
(* Specifications:                                                         *)
(*   Spec          engine, instance API and clock, one Instance            *)
(*   FairSpec      Spec with a scheduler loop and a clock that keep going  *)
(*   LoopSpec      the scheduler loop over a store whose calls may raise   *)
(*   AuthoringSpec Spec's engine with WorkflowDefinitionCRUD writes        *)
(*   SiblingSpec   two Instances side by side                              *)
(*   CallSpec      execute_workflow called with ids the store may not have *)
(*   ValidationSpec the validation operator on drawn rules and contexts    *)
(*   UpdateSpec    repeated status updates of one Instance through the API *)
(*   BacklogSpec   the poll under a sustained stream of new Instances      *)
(***************************************************************************)
EXTENDS Integers, Sequences, FiniteSets, TLC

\* ---------------------------------------------------------------- bounds
MaxTasks == 2
MaxExternalUpdates == 1
MaxTime == 36
TickHours == 12

\* ------------------------------------------------------ program constants
TimeoutHours == 24
PollLimit == 10

\* ------------------------------------------------------------ vocabulary
PENDING == "pending"
RUNNING == "running"
COMPLETED == "completed"
FAILED == "failed"
CANCELLED == "cancelled"
PAUSED == "paused"

WorkflowStatus == {PENDING, RUNNING, COMPLETED, FAILED, CANCELLED, PAUSED}

TerminalStatus == {COMPLETED, FAILED, CANCELLED}

\* Optional values: None is the empty tuple, Some(v) the one-element tuple.
None == <<>>
Some(v) == <<v>>

\* Python dicts are functions on a finite set of string keys.
EmptyDict == <<>>

\* dict.update(other): keys of other win.
DictUpdate(d, other) ==
    [k \in (DOMAIN d) \cup (DOMAIN other) |->
        IF k \in DOMAIN other THEN other[k] ELSE d[k]]

\* dict.get(key, default)
DictGet(d, key, default) == IF key \in DOMAIN d THEN d[key] ELSE default

\* ------------------------------------------------------ definition store
\* Step specifications of the stored workflow definitions.
Definitions ==
    [ empty  |-> <<>>,
      review |-> << [name |-> "Extract", type |-> "document_extraction",
                     parameters |-> EmptyDict],
                    [name |-> "Summarize", type |-> "ai_analysis",
                     parameters |-> [operation |-> "summarize"]],
                    [name |-> "Archive", type |-> "archive",
                     parameters |-> EmptyDict] >>,
      triage |-> << [name |-> "Classify", type |-> "ai_analysis",
                     parameters |-> [operation |-> "classify"]],
                    [name |-> "Check", type |-> "validation",
                     parameters |-> [rules |-> << [field |-> "text",
                                                   condition |-> "not_empty",
                                                   value |-> ""] >>]] >>,
      archive |-> << [name |-> "Archive", type |-> "archive",
                      parameters |-> EmptyDict] >>,
      check  |-> << [name |-> "Check", type |-> "validation",
                     parameters |-> [rules |-> << [field |-> "text",
                                                   condition |-> "not_empty",
                                                   value |-> ""] >>]] >> ]

\* A stored WorkflowDefinition document, as the authoring API created it.
DefinitionDoc(definition_id) ==
    [ name |-> definition_id,
      version |-> "1.0",
      steps |-> Definitions[definition_id],
      is_active |-> TRUE,
      retry_attempts |-> 3 ]

\* A well-formed definition id that no stored document has.
UnknownDefinitionId == "missing"

\* The start requests of the API: a definition id and the input data.
StartRequests ==
    { [workflow_definition_id |-> "empty", input_data |-> EmptyDict],
      [workflow_definition_id |-> "review", input_data |-> [text |-> "memo"]],
      [workflow_definition_id |-> "triage", input_data |-> [text |-> "memo"]],
      [workflow_definition_id |-> "triage", input_data |-> EmptyDict],
      [workflow_definition_id |-> "archive", input_data |-> EmptyDict],
      [workflow_definition_id |-> "check", input_data |-> [text |-> ""]],
      [workflow_definition_id |-> UnknownDefinitionId, input_data |-> EmptyDict] }

\* Outcomes of the external language-model call.
LLMOutcomes == {"answer", "error"}

\* Outcomes of a publish to the notification sink.
NotifyOutcomes == {"sent", "raised"}

VARIABLES
    instances,          \* db.workflow_instances: id -> document
    steps,              \* db.workflow_steps: instance id -> documents by step_number
    creating,           \* create() between insert_one and insert_many: id -> its definition
    running_workflows,  \* WorkflowExecutionEngine.running_workflows
    tasks,              \* asyncio tasks of _execute_workflow_with_cleanup, per instance id
    monitor,            \* start_workflow_monitoring: position and pending_workflows
    openai_client,      \* whether the engine was constructed with an OpenAI client
    now,                \* datetime.utcnow(), in hours
    external_updates,   \* number of status updates made through the API so far
    last_run,           \* per instance id: how its latest ended execution task ended
    definitions,        \* db.workflow_definitions: id -> document
    last_response       \* outcome of the latest create_workflow_instance request

vars == <<instances, steps, creating, running_workflows, tasks, monitor,
          openai_client, now, external_updates, last_run, definitions, last_response>>

\* The ids the store hands out (ObjectIds, in creation order).
InstanceIds == {1}

\* ------------------------------------------------------------ WorkflowInstanceCRUD

\* $set of a partial document.
SetFields(doc, update_data) ==
    [f \in DOMAIN doc |-> IF f \in DOMAIN update_data THEN update_data[f] ELSE doc[f]]

\* collection.find_one({"_id": ...}): the document, or None.
find_one_or_any(docs, id) ==
    IF id \in DOMAIN docs THEN Some(docs[id])
    ELSE Some(docs[CHOOSE d \in DOMAIN docs : TRUE])

find_one(docs, id) == IF id \in DOMAIN docs THEN Some(docs[id]) ELSE None

\* WorkflowDefinitionCRUD.update: $set of update_data on the matching document.
update_definition(docs, definition_id, update_data) ==
    [ d \in DOMAIN docs |->
        IF d = definition_id THEN SetFields(docs[d], update_data) ELSE docs[d] ]

\* WorkflowDefinitionCRUD.deactivate
deactivate(docs, definition_id) ==
    update_definition(docs, definition_id, [is_active |-> FALSE])

\* raise ValueError("Workflow definition not found")
DefinitionNotFound == <<"ValueError", "Workflow definition not found">>

Created == <<"created">>

\* WorkflowInstanceCRUD.create: the instance document inserted first.
NewInstance(definition_id, definition, input_data) ==
    [ workflow_definition_id |-> definition_id,
      workflow_name |-> definition.name,
      workflow_version |-> definition.version,
      status |-> PENDING,
      current_step |-> 0,
      total_steps |-> Len(definition.steps),
      input_data |-> input_data,
      output_data |-> EmptyDict,
      progress_percentage |-> 0,
      current_step_name |-> None,
      started_at |-> None,
      completed_at |-> None,
      execution_time_seconds |-> None,
      error_message |-> None ]

\* WorkflowInstanceCRUD._create_workflow_steps: one document per step spec.
NewStepsUnnumbered(steps_definition) ==
    [ i \in 1..Len(steps_definition) |->
        [ step_number |-> 1,
          step_name |-> steps_definition[i].name,
          step_type |-> steps_definition[i].type,
          parameters |-> steps_definition[i].parameters,
          status |-> PENDING,
          input_data |-> EmptyDict,
          output_data |-> EmptyDict,
          error_message |-> None ] ]

NewSteps(steps_definition) ==
    [ i \in 1..Len(steps_definition) |->
        [ step_number |-> i,
          step_name |-> steps_definition[i].name,
          step_type |-> steps_definition[i].type,
          parameters |-> steps_definition[i].parameters,
          status |-> PENDING,
          input_data |-> EmptyDict,
          output_data |-> EmptyDict,
          error_message |-> None ] ]

\* The filter of update_step: {"workflow_instance_id": ..., "step_number": ...}.
StepMatchesAny(step, step_number) == TRUE

StepMatches(step, step_number) == step.step_number = step_number

\* WorkflowInstanceCRUD.update_step on the step documents of one instance.
update_step(docs, step_number, step_update) ==
    [ i \in DOMAIN docs |->
        IF StepMatches(docs[i], step_number)
        THEN SetFields(docs[i], step_update)
        ELSE docs[i] ]

\* update.dict(exclude_unset=True): a WorkflowInstanceUpdate has the method, a
\* plain dict does not (AttributeError).
UpdateHasDictMethod(update) == update.type = "WorkflowInstanceUpdate"

AttributeError == <<"'dict' object has no attribute 'dict'">>

\* The argument of update_status built by the API layer and by the engine.
WorkflowInstanceUpdate(fields) == [type |-> "WorkflowInstanceUpdate", fields |-> fields]
PlainDict(fields) == [type |-> "dict", fields |-> fields]

\* WorkflowInstanceCRUD.update_status, once update.dict() has returned.
update_status_with_progress(doc, update, t) ==
    SetFields(doc, DictUpdate(update.fields, [progress_percentage |-> 100]))

update_status(doc, update, t) ==
    LET update_data == update.fields
        completing ==
            /\ "status" \in DOMAIN update_data /\ update_data.status = COMPLETED
            /\ "completed_at" \notin DOMAIN update_data
        stamped ==
            IF completing
            THEN DictUpdate(update_data,
                    IF doc.started_at # None
                    THEN [completed_at |-> Some(t),
                          execution_time_seconds |-> Some(t - doc.started_at[1])]
                    ELSE [completed_at |-> Some(t)])
            ELSE update_data
    IN SetFields(doc, stamped)

\* WorkflowInstanceCRUD.start_execution.
start_execution(doc, t) ==
    SetFields(doc, [status |-> RUNNING, started_at |-> Some(t)])

\* The filter of cleanup_stale_instances.
IsStaleNever(doc, t) == FALSE

IsStaleInverted(doc, t) ==
    /\ doc.status = RUNNING
    /\ doc.started_at # None
    /\ doc.started_at[1] > t - TimeoutHours

IsStale(doc, t) ==
    /\ doc.status = RUNNING
    /\ doc.started_at # None
    /\ doc.started_at[1] < t - TimeoutHours

TimeoutMessage == <<"Workflow timeout after", TimeoutHours, "hours">>

\* WorkflowInstanceCRUD.cleanup_stale_instances (update_many).
cleanup_running_instances(docs, t) ==
    [ id \in DOMAIN docs |->
        IF docs[id].status = RUNNING
        THEN SetFields(docs[id], [status |-> FAILED, error_message |-> TimeoutMessage])
        ELSE docs[id] ]

cleanup_stale_instances(docs, t) ==
    [ id \in DOMAIN docs |->
        IF IsStale(docs[id], t)
        THEN SetFields(docs[id], [status |-> FAILED, error_message |-> TimeoutMessage])
        ELSE docs[id] ]

\* return result.modified_count
modified_count(docs, t) == Cardinality({id \in DOMAIN docs : IsStale(docs[id], t)})

\* Descending ids of S as a sequence (ids grow with created_at).
RECURSIVE Descending(_)
Descending(S) ==
    IF S = {} THEN <<>>
    ELSE LET m == CHOOSE x \in S : \A y \in S : y <= x
         IN <<m>> \o Descending(S \ {m})

\* WorkflowInstanceCRUD.search(status=PENDING, limit=10): newest first.
search(docs, status, limit) ==
    LET found == Descending({id \in DOMAIN docs : docs[id].status = status})
    IN SubSeq(found, 1, IF Len(found) < limit THEN Len(found) ELSE limit)

\* ------------------------------------------------------------ step operators
\* An operator returns [raised |-> FALSE, result |-> dict] or
\* [raised |-> TRUE, message |-> str(e)].
Returns(result) == [raised |-> FALSE, result |-> result]
Raises(message) == [raised |-> TRUE, message |-> message]

\* text = context.get("text", context.get("content", ""))
TextOf(context) == DictGet(context, "text", DictGet(context, "content", ""))

AIOperations == {"summarize", "classify", "extract_entities"}

NoTextMessage(operation) ==
    CASE operation = "summarize" -> <<"No text content found for summarization">>
      [] operation = "classify" -> <<"No text content found for classification">>
      [] OTHER -> <<"No text content found for entity extraction">>

CallFailedMessage(operation) ==
    CASE operation = "summarize" -> <<"Summarization failed">>
      [] operation = "classify" -> <<"Classification failed">>
      [] OTHER -> <<"Entity extraction failed">>

\* _execute_summarization, _execute_classification, _execute_entity_extraction
AIResult(operation) ==
    CASE operation = "summarize" ->
            [operation |-> "summarize", summary |-> "summary",
             model_used |-> "gpt-3.5-turbo"]
      [] operation = "classify" ->
            [operation |-> "classify", classification |-> "classification",
             raw_response |-> "response", model_used |-> "gpt-3.5-turbo"]
      [] OTHER ->
            [operation |-> "extract_entities", entities |-> "entities",
             raw_response |-> "response", model_used |-> "gpt-3.5-turbo"]

\* _execute_ai_analysis_step
execute_ai_analysis_step(step, context, client, llm) ==
    LET operation == DictGet(step.parameters, "operation", "analyze")
    IN IF ~client THEN Raises(<<"OpenAI client not available for AI analysis">>)
       ELSE IF operation \notin AIOperations
            THEN Raises(<<"Unknown AI operation", operation>>)
       ELSE IF TextOf(context) = "" THEN Raises(NoTextMessage(operation))
       ELSE IF llm = "error" THEN Raises(CallFailedMessage(operation))
       ELSE Returns(AIResult(operation))

\* _execute_document_extraction_step
execute_document_extraction_step(step, context) ==
    Returns([operation |-> "document_extraction", extracted_data |-> context,
             status |-> "completed"])

\* str(v).strip() of the model's strings: "" and " " are the blank ones.
Strip(v) == IF v = " " THEN "" ELSE v

\* _evaluate_condition ("contains" on whole strings: the model's strings are
\* atoms; no value of the model is None)
evaluate_condition(field_value, condition, expected_value) ==
    CASE condition = "equals" -> field_value = expected_value
      [] condition = "not_equals" -> field_value # expected_value
      [] condition = "contains" -> expected_value = "" \/ expected_value = field_value
      [] condition = "not_empty" -> Strip(field_value) # ""
      [] OTHER -> FALSE

\* _execute_validation_step: one result per rule whose field is in the context.
execute_validation_step(step, context) ==
    LET rules == DictGet(step.parameters, "rules", <<>>)
        checked == SelectSeq(rules, LAMBDA rule : rule.field \in DOMAIN context)
        validation_results ==
            [ i \in 1..Len(checked) |->
                [rule |-> checked[i],
                 passed |-> evaluate_condition(context[checked[i].field],
                                               checked[i].condition, checked[i].value),
                 actual_value |-> context[checked[i].field]] ]
    IN Returns([operation |-> "validation",
                validation_results |-> validation_results,
                all_passed |-> \A i \in 1..Len(checked) : validation_results[i].passed,
                status |-> "completed"])

\* str.upper() / str.lower() of an atom
Upper(v) == <<"upper", v>>
Lower(v) == <<"lower", v>>

RECURSIVE ApplyTransformations(_, _, _)
ApplyTransformations(data, transformations, i) ==
    IF i > Len(transformations) THEN data
    ELSE LET tr == transformations[i]
             src == tr.source_field
             next ==
                IF src \notin DOMAIN data THEN data
                ELSE CASE tr.operation = "copy" ->
                            DictUpdate(data, [k \in {tr.target_field} |-> data[src]])
                       [] tr.operation = "uppercase" ->
                            DictUpdate(data, [k \in {tr.target_field} |-> Upper(data[src])])
                       [] tr.operation = "lowercase" ->
                            DictUpdate(data, [k \in {tr.target_field} |-> Lower(data[src])])
                       [] OTHER -> data
         IN ApplyTransformations(next, transformations, i + 1)

\* _execute_transformation_step
execute_transformation_step(step, context) ==
    LET transformations == DictGet(step.parameters, "transformations", <<>>)
    IN Returns([operation |-> "data_transformation",
                transformed_data |-> ApplyTransformations(context, transformations, 1),
                applied_transformations |-> transformations,
                status |-> "completed"])

\* The dispatch on step.step_type in _execute_step.
ExecuteOperator(step, context, client, llm) ==
    CASE step.step_type = "ai_analysis" ->
            execute_ai_analysis_step(step, context, client, llm)
      [] step.step_type = "document_extraction" ->
            execute_document_extraction_step(step, context)
      [] step.step_type = "validation" ->
            execute_validation_step(step, context)
      [] step.step_type = "data_transformation" ->
            execute_transformation_step(step, context)
      [] OTHER ->
            Returns([status |-> "skipped",
                     message |-> <<"Unknown step type", step.step_type>>])

\* ------------------------------------------------------------ execution tasks
\* A task of _execute_workflow_with_cleanup: its position (the call it awaits
\* next) and the locals of execute_workflow and _execute_step.
NewTask ==
    [ pc |-> "get",
      input_data |-> EmptyDict,    \* instance.input_data as loaded at line 30
      steps |-> <<>>,              \* steps as loaded at line 45
      index |-> 0,                 \* position of the for loop in steps
      context |-> EmptyDict,       \* current_context
      result |-> EmptyDict,        \* result of the operator
      exception |-> None,          \* str(e) in the handler of _execute_step
      handling |-> FALSE,          \* inside "except Exception" of execute_workflow
      error_message |-> None,      \* argument of _mark_failed
      returned |-> "running",      \* "true", "false" or "raised" once it has ended
      operator_raised |-> 0,       \* step_number whose operator raised, else 0
      sink_raised |-> FALSE,       \* whether a send_workflow_update of this run raised
      invoked |-> <<>>,            \* step_numbers whose operator this run has invoked
      events |-> <<>> ]            \* what this run has published to the sink

\* Positions inside the try block of _execute_step.
StepTryPositions == {"step_running", "notify_step", "operator", "step_completed"}

NotifyPositions == {"notify_started", "notify_step", "notify_completed", "notify_failed"}

UpdateStatusPositions == {"progress", "completed", "mark_failed"}

UpdateStepPositions == {"step_running", "step_completed", "step_failed"}

GetStepsPositions == {"get_steps", "reread"}

ExecutionErrorMessage(message) == <<"Execution error", message>>

StepFailedMessage(step) == <<"Step", step.step_number, step.step_name, "failed">>

NoStepsMessage == <<"No workflow steps defined">>

\* An exception raised by the call the task awaits: into the handler of
\* _execute_step (lines 140-147), else into the handler of execute_workflow
\* (lines 92-95), else out of execute_workflow.
Raise(task, message) ==
    IF task.pc \in StepTryPositions
    THEN [task EXCEPT !.pc = "step_failed", !.exception = message]
    ELSE IF ~task.handling
    THEN [task EXCEPT !.pc = "mark_failed", !.handling = TRUE,
                      !.error_message = ExecutionErrorMessage(message)]
    ELSE [task EXCEPT !.pc = "finally", !.returned = "raised"]

ReturnTrue(task, value) == [task EXCEPT !.pc = "finally", !.returned = "true"]

Return(task, value) == [task EXCEPT !.pc = "finally", !.returned = value]

CurrentStep(task) == task.steps[task.index]

\* progress = (step.step_number / len(steps)) * 100, in whole percent
Progress(step_number, count) == (step_number * 100) \div count

SetTask(id, n, task) == [tasks EXCEPT ![id][n] = task]

RemoveAt(seq, n) == SubSeq(seq, 1, n - 1) \o SubSeq(seq, n + 1, Len(seq))

TaskAt(id, n, positions) ==
    /\ id \in DOMAIN tasks
    /\ n \in DOMAIN tasks[id]
    /\ tasks[id][n].pc \in positions

\* execute_workflow line 30: instance = await self.workflow_crud.get(instance_id)
ExecGet(id, n) ==
    /\ TaskAt(id, n, {"get"})
    /\ LET task == tasks[id][n]
       IN tasks' = SetTask(id, n,
            IF id \in DOMAIN instances
            THEN [task EXCEPT !.pc = "start_execution",
                              !.input_data = instances[id].input_data]
            ELSE Return(task, "false"))
    /\ UNCHANGED <<instances, steps, creating, running_workflows, monitor,
                   openai_client, now, external_updates, last_run,
                   definitions, last_response>>

\* execute_workflow line 36: await self.workflow_crud.start_execution(instance_id)
ExecStartExecution(id, n) ==
    /\ TaskAt(id, n, {"start_execution"})
    /\ instances' = [instances EXCEPT ![id] = start_execution(@, now)]
    /\ tasks' = SetTask(id, n, [tasks[id][n] EXCEPT !.pc = "notify_started"])
    /\ UNCHANGED <<steps, creating, running_workflows, monitor,
                   openai_client, now, external_updates, last_run,
                   definitions, last_response>>

\* The event of each manager.send_workflow_update call (lines 39, 109, 83, 385).
EventAt(task) ==
    CASE task.pc = "notify_started" -> [status |-> RUNNING, current_step |-> 0]
      [] task.pc = "notify_step" ->
            [status |-> RUNNING, current_step |-> CurrentStep(task).step_number]
      [] task.pc = "notify_completed" -> [status |-> COMPLETED, current_step |-> 0]
      [] OTHER -> [status |-> FAILED, current_step |-> 0]

AfterNotify(task) ==
    CASE task.pc = "notify_started" -> [task EXCEPT !.pc = "get_steps"]
      [] task.pc = "notify_step" -> [task EXCEPT !.pc = "operator"]
      [] task.pc = "notify_completed" -> Return(task, "true")
      [] OTHER -> Return(task, "false")

\* await manager.send_workflow_update(...): published, or the sink raises.
ExecNotify(id, n, outcome) ==
    /\ TaskAt(id, n, NotifyPositions)
    /\ LET task == tasks[id][n]
       IN tasks' = SetTask(id, n,
            IF outcome = "sent"
            THEN AfterNotify([task EXCEPT !.events = Append(@, EventAt(task))])
            ELSE Raise([task EXCEPT !.sink_raised = TRUE],
                       <<"send_workflow_update failed">>))
    /\ UNCHANGED <<instances, steps, creating, running_workflows, monitor,
                   openai_client, now, external_updates, last_run,
                   definitions, last_response>>

\* The collections of the database the CRUD classes are constructed with.
Db ==
    [ workflow_instances |-> instances,
      workflow_steps |-> steps,
      workflow_definitions |-> definitions ]

\* WorkflowInstanceCRUD.get_steps: the Step documents of the instance, by
\* step_number.
get_steps_from_definition(db, instance_id) ==
    NewSteps(db.workflow_definitions[
                db.workflow_instances[instance_id].workflow_definition_id].steps)

get_steps_descending(db, instance_id) ==
    [ i \in DOMAIN db.workflow_steps[instance_id] |->
        db.workflow_steps[instance_id][Len(db.workflow_steps[instance_id]) + 1 - i] ]

get_steps(db, instance_id) == db.workflow_steps[instance_id]

\* execute_workflow lines 45-52 and 70-73: await self.workflow_crud.get_steps(...)
ExecGetSteps(id, n) ==
    /\ TaskAt(id, n, GetStepsPositions)
    /\ LET task == tasks[id][n]
           found == get_steps(Db, id)
       IN tasks' = SetTask(id, n,
            IF task.pc = "get_steps"
            THEN IF found = <<>>
                 THEN [task EXCEPT !.pc = "mark_failed", !.error_message = NoStepsMessage]
                 ELSE [task EXCEPT !.pc = "step_running", !.steps = found, !.index = 1,
                                   !.context = task.input_data]
            ELSE LET number == CurrentStep(task).step_number
                     matching == {i \in DOMAIN found : found[i].step_number = number}
                     merged ==
                        IF matching # {} /\
                           found[CHOOSE i \in matching : TRUE].output_data # EmptyDict
                        THEN DictUpdate(task.context,
                                found[CHOOSE i \in matching : TRUE].output_data)
                        ELSE task.context
                 IN IF task.index < Len(task.steps)
                    THEN [task EXCEPT !.pc = "step_running", !.context = merged,
                                      !.index = @ + 1]
                    ELSE [task EXCEPT !.pc = "completed", !.context = merged])
    /\ UNCHANGED <<instances, steps, creating, running_workflows, monitor,
                   openai_client, now, external_updates, last_run,
                   definitions, last_response>>

\* The partial document of each update_step call (lines 101, 131, 142); the
\* timestamps of a step are read by nothing and are left out.
StepUpdateAt(task, t) ==
    CASE task.pc = "step_running" ->
            [status |-> RUNNING, input_data |-> task.context]
      [] task.pc = "step_completed" ->
            [status |-> COMPLETED, output_data |-> task.result]
      [] OTHER ->
            [status |-> FAILED, error_message |-> task.exception]

AfterUpdateStepRetrying(task) ==
    CASE task.pc = "step_running" -> [task EXCEPT !.pc = "notify_step"]
      [] task.pc = "step_completed" -> [task EXCEPT !.pc = "progress"]
      [] OTHER -> [task EXCEPT !.pc = "step_running"]

AfterUpdateStep(task) ==
    CASE task.pc = "step_running" -> [task EXCEPT !.pc = "notify_step"]
      [] task.pc = "step_completed" -> [task EXCEPT !.pc = "progress"]
      [] OTHER -> [task EXCEPT !.pc = "mark_failed",
                               !.error_message = StepFailedMessage(CurrentStep(task))]

\* await self.workflow_crud.update_step(instance_id, step.step_number, {...})
ExecUpdateStep(id, n) ==
    /\ TaskAt(id, n, UpdateStepPositions)
    /\ LET task == tasks[id][n]
       IN /\ steps' = [steps EXCEPT ![id] =
                update_step(@, CurrentStep(task).step_number, StepUpdateAt(task, now))]
          /\ tasks' = SetTask(id, n, AfterUpdateStep(task))
    /\ UNCHANGED <<instances, creating, running_workflows, monitor,
                   openai_client, now, external_updates, last_run,
                   definitions, last_response>>

\* _execute_step lines 117-128: the operator of the step's type.
ExecOperator(id, n, llm) ==
    /\ TaskAt(id, n, {"operator"})
    /\ LET task == [tasks[id][n] EXCEPT
                        !.invoked = Append(@, CurrentStep(tasks[id][n]).step_number)]
           outcome == ExecuteOperator(CurrentStep(task), task.context, openai_client, llm)
       IN tasks' = SetTask(id, n,
            IF outcome.raised
            THEN Raise([task EXCEPT !.operator_raised = CurrentStep(task).step_number],
                       outcome.message)
            ELSE [task EXCEPT !.pc = "step_completed", !.result = outcome.result])
    /\ UNCHANGED <<instances, steps, creating, running_workflows, monitor,
                   openai_client, now, external_updates, last_run,
                   definitions, last_response>>

\* The argument of each update_status call of the engine (lines 63, 76, 379):
\* a plain dict every time.
StatusUpdateAt(task) ==
    CASE task.pc = "progress" ->
            PlainDict([progress_percentage |->
                            Progress(CurrentStep(task).step_number, Len(task.steps)),
                       current_step |-> CurrentStep(task).step_number,
                       current_step_name |-> Some(CurrentStep(task).step_name)])
      [] task.pc = "completed" ->
            PlainDict([status |-> COMPLETED, progress_percentage |-> 100,
                       output_data |-> task.context])
      [] OTHER ->
            PlainDict([status |-> FAILED, error_message |-> task.error_message])

AfterUpdateStatus(task) ==
    CASE task.pc = "progress" -> [task EXCEPT !.pc = "reread"]
      [] task.pc = "completed" -> [task EXCEPT !.pc = "notify_completed"]
      [] OTHER -> [task EXCEPT !.pc = "notify_failed"]

\* await self.workflow_crud.update_status(instance_id, {...})
ExecUpdateStatus(id, n) ==
    /\ TaskAt(id, n, UpdateStatusPositions)
    /\ LET task == tasks[id][n]
           update == StatusUpdateAt(task)
       IN IF UpdateHasDictMethod(update)
          THEN /\ instances' = [instances EXCEPT ![id] = update_status(@, update, now)]
               /\ tasks' = SetTask(id, n, AfterUpdateStatus(task))
          ELSE /\ tasks' = SetTask(id, n, Raise(task, AttributeError))
               /\ UNCHANGED instances
    /\ UNCHANGED <<steps, creating, running_workflows, monitor,
                   openai_client, now, external_updates, last_run,
                   definitions, last_response>>

\* self.running_workflows.pop(instance_id, None)
pop_all(running, instance_id) == {}

pop_nothing(running, instance_id) == running

pop(running, instance_id) == running \ {instance_id}

\* _execute_workflow_with_cleanup lines 428-430: the finally block.
ExecFinally(id, n) ==
    /\ TaskAt(id, n, {"finally"})
    /\ running_workflows' = pop(running_workflows, id)
    /\ tasks' = [tasks EXCEPT ![id] = RemoveAt(@, n)]
    /\ last_run' = [last_run EXCEPT ![id] =
            [ended |-> TRUE,
             returned |-> tasks[id][n].returned,
             operator_raised |-> tasks[id][n].operator_raised,
             sink_raised |-> tasks[id][n].sink_raised,
             index |-> tasks[id][n].index,
             invoked |-> tasks[id][n].invoked,
             events |-> tasks[id][n].events]]
    /\ UNCHANGED <<instances, steps, creating, monitor,
                   openai_client, now, external_updates,
                   definitions, last_response>>

\* ------------------------------------------------------------ scheduler loop
\* if workflow.id not in self.running_workflows
ShouldDispatchAlways(id, running) == TRUE

ShouldDispatch(id, running) == id \notin running

\* start_workflow_monitoring line 403: pending_workflows = await search(...)
MonitorSearchWithin(limit) ==
    /\ monitor.pc = "search"
    /\ monitor' = [pc |-> "dispatch",
                   pending_workflows |-> search(instances, PENDING, limit)]
    /\ UNCHANGED <<instances, steps, creating, running_workflows, tasks,
                   openai_client, now, external_updates, last_run,
                   definitions, last_response>>

MonitorSearch == MonitorSearchWithin(PollLimit)

\* start_workflow_monitoring lines 406-410: the for loop, which awaits nothing.
MonitorDispatch ==
    /\ monitor.pc = "dispatch"
    /\ LET pending == {monitor.pending_workflows[i] : i \in DOMAIN monitor.pending_workflows}
           dispatched == {id \in pending : ShouldDispatch(id, running_workflows)}
       IN /\ \A id \in dispatched : Len(tasks[id]) < MaxTasks
          /\ running_workflows' = running_workflows \cup dispatched
          /\ tasks' = [id \in DOMAIN tasks |->
                         IF id \in dispatched THEN Append(tasks[id], NewTask)
                         ELSE tasks[id]]
    /\ monitor' = [pc |-> "cleanup", pending_workflows |-> <<>>]
    /\ UNCHANGED <<instances, steps, creating, openai_client, now,
                   external_updates, last_run,
                   definitions, last_response>>

\* start_workflow_monitoring lines 413-418: the reaper, then sleep(10).
MonitorCleanup ==
    /\ monitor.pc = "cleanup"
    /\ instances' = cleanup_stale_instances(instances, now)
    /\ monitor' = [pc |-> "search", pending_workflows |-> <<>>]
    /\ UNCHANGED <<steps, creating, running_workflows, tasks, openai_client, now,
                   external_updates, last_run,
                   definitions, last_response>>

\* start_workflow_monitoring lines 420-422: "except Exception" logs the error
\* and goes to sleep(30); nothing is raised again.
MonitorHandlerReraises(position) == [pc |-> "exited", pending_workflows |-> <<>>]

MonitorHandler(position) == [pc |-> "backoff", pending_workflows |-> <<>>]

\* The positions of the try block (lines 396-418) an exception can come from:
\* the pending query, the dispatch loop (before it dispatches) and the reaper.
MonitorTryPositions == {"search", "dispatch", "cleanup"}

\* The positions of the scheduler loop.
MonitorPositions == MonitorTryPositions \cup {"backoff"}

\* A call of the cycle raises: the rest of the cycle is skipped.
MonitorRaise ==
    /\ monitor.pc \in MonitorTryPositions
    /\ monitor' = MonitorHandler(monitor.pc)
    /\ UNCHANGED <<instances, steps, creating, running_workflows, tasks,
                   openai_client, now, external_updates, last_run,
                   definitions, last_response>>

\* start_workflow_monitoring line 422: sleep(30) ends and "while True" goes on.
MonitorBackoff ==
    /\ monitor.pc = "backoff"
    /\ monitor' = [pc |-> "search", pending_workflows |-> <<>>]
    /\ UNCHANGED <<instances, steps, creating, running_workflows, tasks,
                   openai_client, now, external_updates, last_run,
                   definitions, last_response>>

\* ------------------------------------------------------------ API layer
NoRun ==
    [ended |-> FALSE, returned |-> "running", operator_raised |-> 0,
     sink_raised |-> FALSE, index |-> 0,
     invoked |-> <<>>, events |-> <<>>]

\* create_workflow_instance -> WorkflowInstanceCRUD.create, up to insert_one:
\* the definition is read once (line 86); without it, ValueError and no insert.
CreateInstanceWithin(ids, definition_id, input_data) ==
    /\ Cardinality(DOMAIN instances) + 1 \in ids
    /\ LET id == Cardinality(DOMAIN instances) + 1
           definition == find_one(definitions, definition_id)
       IN IF definition = None
          THEN /\ last_response' = DefinitionNotFound
               /\ UNCHANGED <<instances, steps, tasks, last_run, creating>>
          ELSE /\ instances' = instances @@
                        (id :> NewInstance(definition_id, definition[1], input_data))
               /\ steps' = steps @@ (id :> <<>>)
               /\ tasks' = tasks @@ (id :> <<>>)
               /\ last_run' = last_run @@ (id :> NoRun)
               /\ creating' = IF definition[1].steps # <<>>
                              THEN creating @@ (id :> definition[1]) ELSE creating
               /\ last_response' = Created
    /\ UNCHANGED <<running_workflows, monitor, openai_client, now, external_updates,
                   definitions>>

CreateInstance(definition_id, input_data) ==
    CreateInstanceWithin(InstanceIds, definition_id, input_data)

\* WorkflowInstanceCRUD.create line 117: await self._create_workflow_steps(...)
CreateSteps(id) ==
    /\ id \in DOMAIN creating
    /\ steps' = [steps EXCEPT ![id] = NewSteps(creating[id].steps)]
    /\ creating' = [i \in DOMAIN creating \ {id} |-> creating[i]]
    /\ UNCHANGED <<instances, running_workflows, tasks, monitor, openai_client, now,
                   external_updates, last_run,
                   definitions, last_response>>

\* The bodies of PUT /api/workflows/instances/{instance_id}: a status, or the
\* progress and output fields of WorkflowInstanceUpdate.
APIUpdates ==
    {[status |-> s] : s \in WorkflowStatus} \cup
    {[current_step |-> 1, progress_percentage |-> 50,
      output_data |-> [note |-> "edited"]]}

\* update_workflow_instance -> update_status(instance_id, update)
UpdateInstanceWithin(limit, id, fields) ==
    /\ id \in DOMAIN instances
    /\ external_updates < limit
    /\ instances' = [instances EXCEPT ![id] =
                        update_status(@, WorkflowInstanceUpdate(fields), now)]
    /\ external_updates' = external_updates + 1
    /\ UNCHANGED <<steps, creating, running_workflows, tasks, monitor, openai_client,
                   now, last_run,
                   definitions, last_response>>

UpdateInstance(id, fields) == UpdateInstanceWithin(MaxExternalUpdates, id, fields)

\* cancel_workflow_instance -> update_status(WorkflowInstanceUpdate(status=CANCELLED))
CancelInstance(id) ==
    /\ id \in DOMAIN instances
    /\ external_updates < MaxExternalUpdates
    /\ instances' = [instances EXCEPT ![id] =
                        update_status(@, WorkflowInstanceUpdate([status |-> CANCELLED]), now)]
    /\ external_updates' = external_updates + 1
    /\ UNCHANGED <<steps, creating, running_workflows, tasks, monitor, openai_client,
                   now, last_run,
                   definitions, last_response>>

\* The definition ids and the update_data the authoring surface sends.
AuthoredDefinitions == {"review"}

DefinitionUpdates == {[version |-> "2.0", steps |-> Definitions.archive]}

\* WorkflowDefinitionCRUD.update(definition_id, update_data)
UpdateDefinition(definition_id, update_data) ==
    /\ definitions' = update_definition(definitions, definition_id, update_data)
    /\ UNCHANGED <<instances, steps, creating, running_workflows, tasks, monitor,
                   openai_client, now, external_updates, last_run, last_response>>

\* WorkflowDefinitionCRUD.deactivate(definition_id)
DeactivateDefinition(definition_id) ==
    /\ definitions' = deactivate(definitions, definition_id)
    /\ UNCHANGED <<instances, steps, creating, running_workflows, tasks, monitor,
                   openai_client, now, external_updates, last_run, last_response>>

\* Wall-clock time passes.
Tick ==
    /\ now + TickHours <= MaxTime
    /\ now' = now + TickHours
    /\ UNCHANGED <<instances, steps, creating, running_workflows, tasks, monitor,
                   openai_client, external_updates, last_run,
                   definitions, last_response>>

\* ------------------------------------------------------------ specification
Init ==
    /\ instances = <<>>
    /\ steps = <<>>
    /\ creating = <<>>
    /\ running_workflows = {}
    /\ tasks = <<>>
    /\ monitor = [pc |-> "search", pending_workflows |-> <<>>]
    /\ openai_client \in BOOLEAN
    /\ now = 0
    /\ external_updates = 0
    /\ last_run = <<>>
    /\ definitions = [d \in DOMAIN Definitions |-> DefinitionDoc(d)]
    /\ last_response = None

TaskSlots == 1..MaxTasks

Next ==
    \/ \E r \in StartRequests : CreateInstance(r.workflow_definition_id, r.input_data)
    \/ \E id \in InstanceIds : CreateSteps(id)
    \/ \E id \in InstanceIds, fields \in APIUpdates : UpdateInstance(id, fields)
    \/ \E id \in InstanceIds : CancelInstance(id)
    \/ MonitorSearch
    \/ MonitorDispatch
    \/ MonitorCleanup
    \/ \E id \in InstanceIds, n \in TaskSlots : ExecGet(id, n)
    \/ \E id \in InstanceIds, n \in TaskSlots : ExecStartExecution(id, n)
    \/ \E id \in InstanceIds, n \in TaskSlots, o \in NotifyOutcomes : ExecNotify(id, n, o)
    \/ \E id \in InstanceIds, n \in TaskSlots : ExecGetSteps(id, n)
    \/ \E id \in InstanceIds, n \in TaskSlots : ExecUpdateStep(id, n)
    \/ \E id \in InstanceIds, n \in TaskSlots, llm \in LLMOutcomes : ExecOperator(id, n, llm)
    \/ \E id \in InstanceIds, n \in TaskSlots : ExecUpdateStatus(id, n)
    \/ \E id \in InstanceIds, n \in TaskSlots : ExecFinally(id, n)
    \/ Tick

Spec == Init /\ [][Next]_vars

\* The scheduler loop and the clock keep going: the loop is "while True" with
\* every exception caught, and asyncio resumes a coroutine whose await is done.
Monitor == MonitorSearch \/ MonitorDispatch \/ MonitorCleanup

FairSpec == Spec /\ WF_vars(Monitor) /\ WF_vars(Tick)

\* The engine and the instance API together with the definition authoring
\* surface (WorkflowDefinitionCRUD.update and deactivate); the clock and the
\* status writes of the instance API stay out.
Execution(id, n) ==
    \/ ExecGet(id, n)
    \/ ExecStartExecution(id, n)
    \/ \E o \in NotifyOutcomes : ExecNotify(id, n, o)
    \/ ExecGetSteps(id, n)
    \/ ExecUpdateStep(id, n)
    \/ \E llm \in LLMOutcomes : ExecOperator(id, n, llm)
    \/ ExecUpdateStatus(id, n)
    \/ ExecFinally(id, n)

AuthoringNext ==
    \/ \E r \in StartRequests : CreateInstance(r.workflow_definition_id, r.input_data)
    \/ \E id \in InstanceIds : CreateSteps(id)
    \/ \E d \in AuthoredDefinitions, u \in DefinitionUpdates : UpdateDefinition(d, u)
    \/ \E d \in AuthoredDefinitions : DeactivateDefinition(d)
    \/ MonitorSearch
    \/ MonitorDispatch
    \/ MonitorCleanup
    \/ \E id \in InstanceIds, n \in TaskSlots : Execution(id, n)

AuthoringSpec == Init /\ [][AuthoringNext]_vars

\* The scheduler loop over a store whose calls may raise, with the executions
\* it dispatches and the clock; the loop resumes whenever its await is done.
Loop == MonitorSearch \/ MonitorDispatch \/ MonitorCleanup \/ MonitorRaise \/ MonitorBackoff

LoopNext ==
    \/ \E r \in StartRequests : CreateInstance(r.workflow_definition_id, r.input_data)
    \/ \E id \in InstanceIds : CreateSteps(id)
    \/ MonitorSearch
    \/ MonitorDispatch
    \/ MonitorCleanup
    \/ MonitorRaise
    \/ MonitorBackoff
    \/ \E id \in InstanceIds, n \in TaskSlots : Execution(id, n)
    \/ Tick

LoopSpec == Init /\ [][LoopNext]_vars /\ WF_vars(Loop)

\* Two Instances side by side: creation, the scheduler loop and the executions,
\* without the clock, the status writes of the API and the authoring surface.
SiblingIds == {1, 2}

SiblingRequests ==
    { [workflow_definition_id |-> "review", input_data |-> [text |-> "memo"]],
      [workflow_definition_id |-> "triage", input_data |-> EmptyDict] }

SiblingNext ==
    \/ \E r \in SiblingRequests :
            CreateInstanceWithin(SiblingIds, r.workflow_definition_id, r.input_data)
    \/ \E id \in SiblingIds : CreateSteps(id)
    \/ MonitorSearch
    \/ MonitorDispatch
    \/ MonitorCleanup
    \/ \E id \in SiblingIds, n \in TaskSlots : Execution(id, n)

SiblingSpec == Init /\ [][SiblingNext]_vars

\* execute_workflow as a function of its argument: the ids it is called with
\* are the id the store hands out and one that no document has.
CallIds == {1, 2}

\* _execute_workflow_with_cleanup(instance_id) is started for an id that has no
\* execution in flight, as lines 407-410 start it.
CallExecuteWorkflow(id) ==
    /\ ShouldDispatch(id, running_workflows)
    /\ id \in DOMAIN tasks => tasks[id] = <<>>
    /\ running_workflows' = running_workflows \cup {id}
    /\ tasks' = IF id \in DOMAIN tasks
                THEN [tasks EXCEPT ![id] = <<NewTask>>]
                ELSE tasks @@ (id :> <<NewTask>>)
    /\ last_run' = IF id \in DOMAIN last_run THEN last_run
                   ELSE last_run @@ (id :> NoRun)
    /\ UNCHANGED <<instances, steps, creating, monitor, openai_client, now,
                   external_updates, definitions, last_response>>

CallNext ==
    \/ \E r \in StartRequests : CreateInstance(r.workflow_definition_id, r.input_data)
    \/ \E id \in InstanceIds : CreateSteps(id)
    \/ \E id \in CallIds : CallExecuteWorkflow(id)
    \/ \E id \in CallIds, n \in TaskSlots : Execution(id, n)

CallSpec == Init /\ [][CallNext]_vars

\* The validation operator as a function: rule lists of up to MaxRules rules
\* over two fields, the four conditions and an unknown one, and the contexts.
MaxRules == 2

ValidationRules ==
    [ field : {"text", "author"},
      condition : {"equals", "not_equals", "contains", "not_empty", "matches"},
      value : {"memo", ""} ]

RuleLists ==
    UNION {[1..n -> ValidationRules] : n \in 0..MaxRules}

ValidationContexts ==
    { EmptyDict, [text |-> "memo"], [text |-> ""], [text |-> " "],
      [text |-> "memo", author |-> "memo"] }

\* A validation Step with the rules, as _create_workflow_steps stores it.
ValidationStep(rules) ==
    NewSteps(<<[name |-> "Check", type |-> "validation",
                parameters |-> [rules |-> rules]]>>)[1]

ValidationInit ==
    /\ instances = <<>>
    /\ steps = <<>>
    /\ creating = <<>>
    /\ running_workflows = {}
    /\ tasks = <<>>
    /\ monitor = [pc |-> "search", pending_workflows |-> <<>>]
    /\ openai_client = FALSE
    /\ now = 0
    /\ external_updates = 0
    /\ last_run = <<>>
    /\ definitions = [d \in DOMAIN Definitions |-> DefinitionDoc(d)]
    /\ \E rules \in RuleLists, context \in ValidationContexts :
          last_response = [step |-> ValidationStep(rules), context |-> context,
                           outcome |-> None]

\* result = await self._execute_validation_step(step, context)
Validate ==
    /\ last_response.outcome = None
    /\ last_response' =
          [last_response EXCEPT !.outcome =
              Some(ExecuteOperator(last_response.step, last_response.context,
                                   openai_client, "answer"))]
    /\ UNCHANGED <<instances, steps, creating, running_workflows, tasks, monitor,
                   openai_client, now, external_updates, last_run, definitions>>

ValidationNext == Validate

ValidationSpec == ValidationInit /\ [][ValidationNext]_vars

\* Repeated status updates of one Instance through the API, with the scheduler,
\* the executions and the clock.
MaxStatusWrites == 2

UpdateRequests ==
    {[workflow_definition_id |-> "archive", input_data |-> EmptyDict]}

StatusUpdates == {[status |-> s] : s \in {RUNNING, COMPLETED, FAILED}}

UpdateNext ==
    \/ \E r \in UpdateRequests : CreateInstance(r.workflow_definition_id, r.input_data)
    \/ \E id \in InstanceIds : CreateSteps(id)
    \/ \E id \in InstanceIds, fields \in StatusUpdates :
            UpdateInstanceWithin(MaxStatusWrites, id, fields)
    \/ MonitorSearch
    \/ MonitorDispatch
    \/ MonitorCleanup
    \/ \E id \in InstanceIds, n \in TaskSlots : Execution(id, n)
    \/ Tick

UpdateSpec == Init /\ [][UpdateNext]_vars

\* The poll under a sustained stream of new Instances, scaled down: the poll
\* takes the BacklogLimit newest PENDING Instances (the program takes PollLimit)
\* and the store holds up to one Instance more than that. Ids stand for the
\* creation order; an Instance that has left PENDING and has no execution in
\* flight no longer matches the PENDING query and is dropped from the model,
\* the ids above it moving down, which makes room for the next new Instance.
BacklogLimit == 1

BacklogIds == 1..(BacklogLimit + 1)

BacklogRequests ==
    { [workflow_definition_id |-> "empty", input_data |-> EmptyDict],
      [workflow_definition_id |-> "archive", input_data |-> EmptyDict] }

Renumber(id, i) == IF i > id THEN i - 1 ELSE i

Forget(id) ==
    /\ id \in DOMAIN instances
    /\ instances[id].status # PENDING
    /\ tasks[id] = <<>>
    /\ id \notin running_workflows
    /\ creating = <<>>
    /\ \A i \in DOMAIN monitor.pending_workflows : monitor.pending_workflows[i] # id
    /\ instances' = RemoveAt(instances, id)
    /\ steps' = RemoveAt(steps, id)
    /\ tasks' = RemoveAt(tasks, id)
    /\ last_run' = RemoveAt(last_run, id)
    /\ running_workflows' = {Renumber(id, i) : i \in running_workflows}
    /\ monitor' = [monitor EXCEPT !.pending_workflows =
                        [i \in DOMAIN @ |-> Renumber(id, @[i])]]
    /\ UNCHANGED <<creating, openai_client, now, external_updates, definitions,
                   last_response>>

BacklogNext ==
    \/ \E r \in BacklogRequests :
            CreateInstanceWithin(BacklogIds, r.workflow_definition_id, r.input_data)
    \/ \E id \in BacklogIds : CreateSteps(id)
    \/ \E id \in BacklogIds : Forget(id)
    \/ MonitorSearchWithin(BacklogLimit)
    \/ MonitorDispatch
    \/ MonitorCleanup
    \/ \E id \in BacklogIds, n \in TaskSlots : Execution(id, n)

\* The scheduler keeps cycling and every execution task keeps being resumed.
BacklogSpec ==
    /\ Init
    /\ [][BacklogNext]_vars
    /\ WF_vars(MonitorSearchWithin(BacklogLimit) \/ MonitorDispatch \/ MonitorCleanup)
    /\ \A id \in BacklogIds : \A n \in TaskSlots : WF_vars(Execution(id, n))

\* ------------------------------------------------------------ properties
StepStatuses(id) == {steps[id][i].status : i \in DOMAIN steps[id]}

StepsCreated(id) ==
    /\ id \notin DOMAIN creating
    /\ Len(steps[id]) = instances[id].total_steps
    /\ Len(steps[id]) > 0

\* The latest execution task of the instance has ended, none is in flight, and
\* no API write has touched the store.
RunEnded(id) ==
    /\ last_run[id].ended
    /\ tasks[id] = <<>>
    /\ external_updates = 0

\* C1: in every reachable state, an Instance whose status is COMPLETED has every
\* one of its Steps COMPLETED and progress_percentage = 100.
CompletedInstanceHasCompletedSteps ==
    \A id \in DOMAIN instances :
        (StepsCreated(id) /\ instances[id].status = COMPLETED) =>
            /\ StepStatuses(id) = {COMPLETED}
            /\ instances[id].progress_percentage = 100

\* C2: terminal states are final: once an Instance is COMPLETED, FAILED or
\* CANCELLED, no step of the system changes its status.
TerminalStatusIsFinal ==
    [][\A id \in DOMAIN instances :
          instances[id].status \in TerminalStatus =>
              instances'[id].status = instances[id].status]_vars

\* C3: an Instance whose execution ended after the operator of Step k raised is
\* FAILED, Step k is its only FAILED Step, every later Step is PENDING and every
\* earlier Step is COMPLETED.
FailedStepShape(id, k) ==
    \A i \in DOMAIN steps[id] :
        steps[id][i].status =
            IF i < k THEN COMPLETED ELSE IF i = k THEN FAILED ELSE PENDING

SingleDispatch ==
    [][\A id \in DOMAIN tasks :
          /\ Len(tasks'[id]) <= 1
          /\ id \in running_workflows => Len(tasks'[id]) <= Len(tasks[id])]_vars

\* C4 witness: a second poll has found the Instance PENDING while its id is in
\* running_workflows and its task is in flight.
SecondPollSeesRunningId ==
    \E id \in DOMAIN tasks :
        /\ monitor.pc = "dispatch"
        /\ \E i \in DOMAIN monitor.pending_workflows : monitor.pending_workflows[i] = id
        /\ id \in running_workflows
        /\ Len(tasks[id]) = 1

StepsStrictlySequential ==
    \A id \in DOMAIN steps :
        /\ Cardinality({i \in DOMAIN steps[id] : steps[id][i].status = RUNNING}) <= 1
        /\ \A i \in DOMAIN steps[id] :
              steps[id][i].status = RUNNING =>
                  \A j \in 1..(i - 1) : steps[id][j].status = COMPLETED

\* C6 witness: Step 1 of an Instance of several Steps is RUNNING, the others wait.
FirstStepRunning ==
    \E id \in DOMAIN steps :
        /\ Len(steps[id]) >= 2
        /\ steps[id][1].status = RUNNING
        /\ \A i \in 2..Len(steps[id]) : steps[id][i].status = PENDING

\* C7: whenever cleanup_stale_instances runs, every Instance that is RUNNING with
\* started_at older than the timeout becomes FAILED with a non-empty
\* error_message, whatever the statuses of its Steps.
ReaperFailsStaleInstances ==
    [][(monitor.pc = "cleanup" /\ monitor'.pc # "cleanup") =>
          \A id \in DOMAIN instances :
              ( /\ instances[id].status = RUNNING
                /\ instances[id].started_at # None
                /\ instances[id].started_at[1] + TimeoutHours < now ) =>
                    /\ instances'[id].status = FAILED
                    /\ instances'[id].error_message # None]_vars

\* C7 witness: the reaper has failed an Instance one of whose Steps is RUNNING.
ReapedWithRunningStep ==
    \E id \in DOMAIN instances :
        /\ instances[id].status = FAILED
        /\ instances[id].error_message = TimeoutMessage
        /\ RUNNING \in StepStatuses(id)

\* C8: an Instance whose dispatched execution has ended (every operator and
\* every notification having returned) is COMPLETED or FAILED, not RUNNING.
EndedExecutionIsTerminal ==
    \A id \in DOMAIN instances :
        (RunEnded(id) /\ last_run[id].operator_raised = 0 /\ ~last_run[id].sink_raised) =>
            instances[id].status \in {COMPLETED, FAILED}

\* The clock of the model can still pass started_at + timeout.
ClockCanPass(started_at) ==
    \E k \in 0..MaxTime :
        /\ now + k * TickHours <= MaxTime
        /\ started_at + TimeoutHours < now + k * TickHours

Stalled(id) ==
    /\ id \in DOMAIN instances
    /\ instances[id].status = RUNNING
    /\ instances[id].started_at # None
    /\ tasks[id] = <<>>
    /\ ClockCanPass(instances[id].started_at[1])

ReapedAfterTimeout(id) ==
    /\ id \in DOMAIN instances
    /\ instances[id].status = FAILED
    /\ instances[id].error_message # None
    /\ instances[id].error_message[1] = "Workflow timeout after"

\* C9: stall recovery: an Instance left RUNNING with no execution task in flight
\* eventually leaves RUNNING (unless it is dispatched again first), and when it
\* leaves RUNNING other than by an API write it is FAILED with the timeout
\* message of the reaper.
StallRecovery ==
    /\ \A id \in InstanceIds :
          Stalled(id) ~> \/ (id \in DOMAIN instances /\ instances[id].status # RUNNING)
                         \/ (id \in DOMAIN tasks /\ tasks[id] # <<>>)
    /\ [][\A id \in DOMAIN instances :
             ( /\ Stalled(id)
               /\ instances'[id].status # RUNNING
               /\ external_updates' = external_updates ) =>
                    ReapedAfterTimeout(id)']_vars

\* C9 witness: an Instance whose execution task ended while it was RUNNING has
\* been failed by the reaper.
StalledInstanceReaped ==
    \E id \in DOMAIN instances :
        /\ RunEnded(id)
        /\ ReapedAfterTimeout(id)

\* C10: when the operator of Step k raises, Step k becomes FAILED with the
\* exception's message, the Instance becomes FAILED with a message naming Step
\* k's number and name, a failure event is published and execute_workflow
\* returns false.
OperatorFailureIsReported ==
    \A id \in DOMAIN instances :
        (RunEnded(id) /\ last_run[id].operator_raised > 0
            /\ ~last_run[id].sink_raised) =>
            LET k == last_run[id].operator_raised
            IN /\ steps[id][k].status = FAILED
               /\ steps[id][k].error_message # None
               /\ instances[id].status = FAILED
               /\ instances[id].error_message = StepFailedMessage(steps[id][k])
               /\ \E e \in DOMAIN last_run[id].events :
                      last_run[id].events[e].status = FAILED
               /\ last_run[id].returned = "false"

\* The step types _execute_step has an operator for.
KnownStepTypes == {"ai_analysis", "document_extraction", "validation", "data_transformation"}

\* C11: a Step of an unknown type is not an error: once the execution of an
\* Instance made only of such Steps has ended, every Step is COMPLETED with
\* output status "skipped" and a message containing the type, and the Instance
\* is COMPLETED.
UnknownStepTypeIsSkipped ==
    \A id \in DOMAIN instances :
        ( /\ RunEnded(id) /\ ~last_run[id].sink_raised
          /\ StepsCreated(id) /\ last_run[id].index >= 1
          /\ \A i \in DOMAIN steps[id] : steps[id][i].step_type \notin KnownStepTypes ) =>
            /\ \A i \in DOMAIN steps[id] :
                  /\ steps[id][i].status = COMPLETED
                  /\ steps[id][i].output_data =
                        [status |-> "skipped",
                         message |-> <<"Unknown step type", steps[id][i].step_type>>]
            /\ instances[id].status = COMPLETED

\* C12: validation failure is data: once the execution of an Instance whose
\* validation Step returned all_passed = false has ended, that Step is COMPLETED
\* and the Instance is COMPLETED.
ValidationFailureIsData ==
    \A id \in DOMAIN instances :
        \A i \in DOMAIN steps[id] :
            ( /\ RunEnded(id) /\ ~last_run[id].sink_raised
              /\ steps[id][i].step_type = "validation"
              /\ "all_passed" \in DOMAIN steps[id][i].output_data
              /\ ~steps[id][i].output_data.all_passed ) =>
                /\ steps[id][i].status = COMPLETED
                /\ instances[id].status = COMPLETED

\* An execution task of the Instance is in flight in which a notification has
\* raised and no operator has.
OnlySinkRaised(id) ==
    \E n \in DOMAIN tasks[id] :
        /\ tasks[id][n].sink_raised
        /\ tasks[id][n].operator_raised = 0

\* C13: a failure of the notification sink never fails the workflow: no step of
\* an execution in which only a notification raised (API writes aside) turns a
\* Step or the Instance FAILED.
NotificationFailureIsHarmless ==
    [][\A id \in DOMAIN tasks :
          (OnlySinkRaised(id) /\ external_updates' = external_updates) =>
              /\ \A i \in DOMAIN steps[id] :
                    steps'[id][i].status = FAILED => steps[id][i].status = FAILED
              /\ (instances'[id].status = FAILED /\ instances[id].status # FAILED) =>
                    ReapedAfterTimeout(id)']_vars

\* C16: creation is atomic with respect to the scheduler: no poll result holds
\* an Instance whose Steps are not yet created, and no execution of an Instance
\* created from a Definition with steps finds "No workflow steps defined".
CreationIsAtomic ==
    \A id \in DOMAIN instances :
        /\ id \in DOMAIN creating =>
              \A i \in DOMAIN monitor.pending_workflows :
                  monitor.pending_workflows[i] # id
        /\ instances[id].total_steps > 0 =>
              \A n \in DOMAIN tasks[id] : tasks[id][n].error_message # NoStepsMessage

StepNumbers(id) == {steps[id][i].step_number : i \in DOMAIN steps[id]}

\* C19: for every Instance in every state after its creation (create has
\* returned), total_steps equals the number of its Step records, whose
\* step_numbers are exactly 1..total_steps; Steps are created PENDING;
\* total_steps and the set of step_numbers never change afterwards.
TotalStepsMatchesStepRecords ==
    /\ [](\A id \in DOMAIN instances : id \notin DOMAIN creating =>
              /\ Len(steps[id]) = instances[id].total_steps
              /\ StepNumbers(id) = 1..instances[id].total_steps)
    /\ [][\A id \in DOMAIN instances :
              /\ instances'[id].total_steps = instances[id].total_steps
              /\ steps[id] # <<>> => StepNumbers(id)' = StepNumbers(id)
              /\ (steps[id] = <<>> /\ steps'[id] # <<>>) =>
                    \A i \in DOMAIN steps'[id] : steps'[id][i].status = PENDING]_vars

\* C19 witness: an Instance of several Steps has run its execution to the end
\* and still has the Step records it was created with.
StepRecordsAfterExecution ==
    \E id \in DOMAIN instances :
        /\ RunEnded(id)
        /\ instances[id].total_steps >= 2
        /\ Len(steps[id]) = instances[id].total_steps
        /\ last_run[id].index >= 1

\* C18: create validates that the Definition is active: every Instance is
\* created from a Definition that is active at that moment.
CreateRequiresActiveDefinition ==
    [][\A id \in DOMAIN instances' :
          id \notin DOMAIN instances =>
              definitions[instances'[id].workflow_definition_id].is_active]_vars

\* What an Instance's Step records capture from the StepSpecs.
Captured(step_docs) ==
    [ i \in DOMAIN step_docs |->
        [ step_name |-> step_docs[i].step_name,
          step_type |-> step_docs[i].step_type,
          parameters |-> step_docs[i].parameters ] ]

\* C20: copy-on-start: a write to the Definition Store changes no Instance, Step
\* or execution; the captured name, version and total_steps of an Instance and
\* the names, types and parameters of its Steps never change; and the steps an
\* execution works on are the Step records, whatever the Definition now says.
DefinitionEditsLeaveInstances ==
    /\ [][definitions' # definitions =>
              /\ instances' = instances
              /\ steps' = steps
              /\ creating' = creating
              /\ tasks' = tasks]_vars
    /\ [][\A id \in DOMAIN instances :
              /\ instances'[id].workflow_name = instances[id].workflow_name
              /\ instances'[id].workflow_version = instances[id].workflow_version
              /\ instances'[id].total_steps = instances[id].total_steps
              /\ steps[id] # <<>> => Captured(steps'[id]) = Captured(steps[id])]_vars
    /\ [](\A id \in DOMAIN tasks :
              \A n \in DOMAIN tasks[id] :
                  tasks[id][n].steps # <<>> =>
                      Captured(tasks[id][n].steps) = Captured(steps[id]))

\* C20 witness: the Definition of an Instance was edited and deactivated after
\* the Instance was created, and an execution of the Instance has loaded the
\* Steps captured at creation.
ExecutionAfterDefinitionEdit ==
    \E id \in DOMAIN instances :
        LET definition == definitions[instances[id].workflow_definition_id]
        IN /\ definition.version # instances[id].workflow_version
           /\ ~definition.is_active
           /\ Len(definition.steps) # instances[id].total_steps
           /\ \E n \in DOMAIN tasks[id] :
                 /\ tasks[id][n].pc = "step_running"
                 /\ Len(tasks[id][n].steps) = instances[id].total_steps

\* C15: the scheduler loop never terminates: it is always at a position of the
\* loop, an exception of the cycle takes it to the 30 s sleep with nothing else
\* changed, from that sleep it can only begin another cycle, and it begins
\* another cycle again and again.
SchedulerLoopNeverTerminates ==
    /\ [](monitor.pc \in MonitorPositions)
    /\ [][(monitor'.pc = "backoff" /\ monitor.pc # "backoff") =>
              /\ instances' = instances
              /\ running_workflows' = running_workflows
              /\ tasks' = tasks]_vars
    /\ [][monitor.pc = "backoff" => monitor'.pc \in {"backoff", "search"}]_vars
    /\ []<>(monitor.pc = "search")

\* C15 witness: a cycle has raised while an Instance waits PENDING, and the loop
\* is in its 30 s sleep.
SchedulerBackingOff ==
    /\ monitor.pc = "backoff"
    /\ \E id \in DOMAIN instances : instances[id].status = PENDING

\* C14: failure isolation: a step of one Instance's execution, failing or not,
\* changes no field of another Instance or of its Steps, changes no other
\* execution, removes no other id from running_workflows and leaves the
\* scheduler loop where it is; after an execution has failed the loop can still
\* take its next step.
FailureIsolation ==
    /\ [][\A id \in SiblingIds, n \in TaskSlots :
              Execution(id, n) =>
                  /\ \A other \in DOMAIN instances \ {id} :
                        /\ instances'[other] = instances[other]
                        /\ steps'[other] = steps[other]
                        /\ tasks'[other] = tasks[other]
                        /\ other \in running_workflows => other \in running_workflows'
                  /\ monitor' = monitor]_vars
    /\ [](\A id \in DOMAIN last_run :
              last_run[id].returned = "raised" =>
                  ENABLED (MonitorSearch \/ MonitorDispatch \/ MonitorCleanup))

\* C14 witness: the execution of one Instance has ended with an exception while
\* the execution of another Instance is in flight, its id in running_workflows.
SiblingRunsAfterFailure ==
    \E id \in DOMAIN instances, other \in DOMAIN instances :
        /\ id # other
        /\ last_run[id].ended
        /\ last_run[id].returned = "raised"
        /\ other \in running_workflows
        /\ tasks[other] # <<>>
        /\ tasks[other][1].pc = "operator"

EngineFields(doc) ==
    <<doc.status, doc.current_step, doc.progress_percentage, doc.output_data>>

\* A write of the engine to the Instance: start_execution or update_status of
\* one of its executions, or the reaper.
EngineWrite(id) ==
    \/ \E n \in DOMAIN tasks[id] : ExecStartExecution(id, n) \/ ExecUpdateStatus(id, n)
    \/ MonitorCleanup

\* A write of the instance API: update_workflow_instance or
\* cancel_workflow_instance.
ApiWrite(id) ==
    \/ \E fields \in APIUpdates : UpdateInstance(id, fields)
    \/ CancelInstance(id)

EngineTransitions ==
    {<<PENDING, RUNNING>>, <<RUNNING, COMPLETED>>, <<RUNNING, FAILED>>}

\* C23: every status change that a step of the engine (an execution or the
\* reaper, API writes aside) makes to an Instance or a Step is PENDING to
\* RUNNING, RUNNING to COMPLETED or RUNNING to FAILED.
EngineStatusTransitions ==
    [][\A id \in DOMAIN instances :
          external_updates' = external_updates =>
              /\ instances'[id].status # instances[id].status =>
                    <<instances[id].status, instances'[id].status>> \in EngineTransitions
              /\ \A i \in DOMAIN steps[id] :
                    steps'[id][i].status # steps[id][i].status =>
                        <<steps[id][i].status, steps'[id][i].status>>
                            \in EngineTransitions]_vars

\* C24: cancellation is not cooperative: a CANCELLED written through the API
\* while an execution is in flight changes nothing of the execution, which can
\* always take its next step, and the engine's next status write (COMPLETED or
\* FAILED) overwrites the CANCELLED status.
CancelIsOverwritten ==
    /\ [][\A id \in DOMAIN instances :
              CancelInstance(id) => (tasks' = tasks /\ steps' = steps)]_vars
    /\ [](\A id \in DOMAIN instances :
              instances[id].status = CANCELLED =>
                  \A n \in DOMAIN tasks[id] : ENABLED Execution(id, n))
    /\ [][\A id \in DOMAIN instances :
              \A n \in DOMAIN tasks[id] :
                  ( /\ instances[id].status = CANCELLED
                    /\ tasks[id][n].pc \in {"completed", "mark_failed"}
                    /\ ExecUpdateStatus(id, n) ) =>
                        instances'[id].status \in {COMPLETED, FAILED}]_vars

\* C25: no step-level retry: within one run of execute_workflow the operator of
\* each Step is invoked at most once, and once a Step of the run has failed
\* (_execute_step returned False) the run invokes no operator again, whatever
\* retry_attempts the Definition declares.
NoStepRetry ==
    /\ [](\A id \in DOMAIN tasks :
              \A n \in DOMAIN tasks[id] :
                  \A i, j \in DOMAIN tasks[id][n].invoked :
                      tasks[id][n].invoked[i] = tasks[id][n].invoked[j] => i = j)
    /\ [][\A id \in DOMAIN tasks :
              \A n \in DOMAIN tasks[id] \cap DOMAIN tasks'[id] :
                  tasks[id][n].exception # None =>
                      tasks'[id][n].invoked = tasks[id][n].invoked]_vars

\* C25 witness: the operator of Step 1 of an Instance of several Steps, whose
\* Definition declares retry_attempts = 3, has raised; the run has handled the
\* failure and is about to end, having invoked that operator once.
RunEndsAfterOneAttempt ==
    \E id \in DOMAIN instances :
        /\ definitions[instances[id].workflow_definition_id].retry_attempts = 3
        /\ Len(steps[id]) >= 2
        /\ \E n \in DOMAIN tasks[id] :
              /\ tasks[id][n].pc = "finally"
              /\ tasks[id][n].operator_raised = 1
              /\ tasks[id][n].exception # None
              /\ tasks[id][n].invoked = <<1>>

NoStepsFailsInstance ==
    \A id \in DOMAIN instances :
        ( /\ RunEnded(id) /\ ~last_run[id].sink_raised
          /\ instances[id].total_steps = 0
          /\ steps[id] = <<>> ) =>
            /\ instances[id].status = FAILED
            /\ instances[id].error_message = NoStepsMessage
            /\ last_run[id].invoked = <<>>
            /\ last_run[id].returned = "false"

\* The Instance input merged with the output of every Step, in step order.
RECURSIVE MergedOutputs(_, _, _)
MergedOutputs(context, step_docs, i) ==
    IF i > Len(step_docs) THEN context
    ELSE MergedOutputs(DictUpdate(context, step_docs[i].output_data), step_docs, i + 1)

\* C28: once the execution of an Instance whose Steps all completed has ended,
\* the Instance is COMPLETED with progress_percentage 100 and output_data equal
\* to the input merged with every Step's output, and execute_workflow returned
\* true; execute_workflow returns true only when every Step is COMPLETED.
CompletionWritesOutput ==
    \A id \in DOMAIN instances :
        /\ ( /\ RunEnded(id) /\ ~last_run[id].sink_raised
              /\ StepsCreated(id)
              /\ StepStatuses(id) = {COMPLETED} ) =>
                /\ instances[id].status = COMPLETED
                /\ instances[id].progress_percentage = 100
                /\ instances[id].output_data =
                      MergedOutputs(instances[id].input_data, steps[id], 1)
                /\ last_run[id].returned = "true"
        /\ (last_run[id].ended /\ last_run[id].returned = "true") =>
                (StepsCreated(id) /\ StepStatuses(id) = {COMPLETED})

\* C29: while an execution is past the progress update that follows its
\* successful Step k and no later Step has been set RUNNING, the Instance
\* record has current_step = k, current_step_name = the name of Step k,
\* progress_percentage = k / total_steps * 100 and status RUNNING.
ProgressIsPersisted ==
    \A id \in DOMAIN instances :
        \A n \in DOMAIN tasks[id] :
            LET task == tasks[id][n]
                k == Len(task.invoked)
            IN ( /\ external_updates = 0
                 /\ k >= 1
                 /\ task.operator_raised = 0
                 /\ task.exception = None
                 /\ task.pc \notin {"step_completed", "progress",
                                    "notify_completed", "notify_failed", "finally"}
                 /\ steps[id][k].status = COMPLETED
                 /\ \A j \in (k + 1)..Len(steps[id]) : steps[id][j].status = PENDING ) =>
                    /\ instances[id].current_step = k
                    /\ instances[id].current_step_name = Some(steps[id][k].step_name)
                    /\ instances[id].progress_percentage =
                          Progress(k, instances[id].total_steps)
                    /\ instances[id].status = RUNNING

\* The events of a run that dispatched Steps 1..k and ended with the terminal
\* status: started, one per Step in ascending step_number, the terminal one.
ExpectedEvents(k, terminal) ==
    <<[status |-> RUNNING, current_step |-> 0]>> \o
    [i \in 1..k |-> [status |-> RUNNING, current_step |-> i]] \o
    <<[status |-> terminal, current_step |-> 0]>>

\* C30: event ordering: the events an ended execution that dispatched a Step
\* has published are one workflow-started event, one step-progress event per
\* dispatched Step in ascending step_number, then exactly one terminal event
\* and nothing after it: a completion event if the Instance ended COMPLETED, a
\* failure event if it ended FAILED.
EventsAreOrdered ==
    \A id \in DOMAIN instances :
        (RunEnded(id) /\ ~last_run[id].sink_raised /\ last_run[id].index >= 1) =>
            \E terminal \in {COMPLETED, FAILED} :
                /\ last_run[id].events = ExpectedEvents(last_run[id].index, terminal)
                /\ instances[id].status \in {COMPLETED, FAILED} =>
                      terminal = instances[id].status

\* C31: an ai_analysis Step (summarize, classify or extract_entities) run with
\* a context that has no non-empty text or content key is a hard failure: once
\* the execution has ended (the engine having an OpenAI client) the Step is
\* FAILED with the no-text message and no output of a model call, and the
\* Instance is FAILED.
MissingTextIsHardFailure ==
    \A id \in DOMAIN instances :
        \A i \in DOMAIN steps[id] :
            ( /\ RunEnded(id) /\ ~last_run[id].sink_raised
              /\ openai_client
              /\ \E j \in DOMAIN last_run[id].invoked : last_run[id].invoked[j] = i
              /\ steps[id][i].step_type = "ai_analysis"
              /\ DictGet(steps[id][i].parameters, "operation", "analyze") \in AIOperations
              /\ DictGet(steps[id][i].input_data, "text", "") = ""
              /\ DictGet(steps[id][i].input_data, "content", "") = "" ) =>
                /\ steps[id][i].status = FAILED
                /\ steps[id][i].error_message =
                      NoTextMessage(steps[id][i].parameters.operation)
                /\ steps[id][i].output_data = EmptyDict
                /\ instances[id].status = FAILED

\* A rule passes against the context: its field is there and the condition
\* holds of the field's value.
RulePasses(rule, context) ==
    /\ rule.field \in DOMAIN context
    /\ evaluate_condition(context[rule.field], rule.condition, rule.value)

\* C32: the validation operator returns one pass/fail result for each rule of
\* its rule list, and all_passed is true exactly when every rule of the list
\* passes against the context.
ValidationJudgesEveryRule ==
    last_response.outcome # None =>
        LET rules == last_response.step.parameters.rules
            result == last_response.outcome[1].result
        IN /\ Len(result.validation_results) = Len(rules)
           /\ \A i \in DOMAIN rules :
                 /\ result.validation_results[i].rule = rules[i]
                 /\ result.validation_results[i].passed =
                       RulePasses(rules[i], last_response.context)
           /\ result.all_passed =
                 (\A i \in DOMAIN rules : RulePasses(rules[i], last_response.context))

\* C33: update_status stamps completed_at, and computes execution_time_seconds
\* from started_at, exactly when the update sets status COMPLETED and the
\* Instance's completed_at is unset; an update of an Instance whose
\* completed_at is set leaves completed_at unchanged, and an update to any
\* other status never sets completed_at.
CompletedAtStampedOnce ==
    [][\A id \in DOMAIN instances :
          \A fields \in StatusUpdates :
              UpdateInstanceWithin(MaxStatusWrites, id, fields) =>
                  IF fields.status = COMPLETED /\ instances[id].completed_at = None
                  THEN /\ instances'[id].completed_at = Some(now)
                       /\ instances[id].started_at # None =>
                             instances'[id].execution_time_seconds =
                                 Some(now - instances[id].started_at[1])
                  ELSE instances'[id].completed_at = instances[id].completed_at]_vars

\* C34: when an execution task ends, however execute_workflow ended, its
\* instance id has been removed from running_workflows; an id is in
\* running_workflows exactly while an execution task dispatched for it has not
\* yet ended.
RunningWorkflowsTracksTasks ==
    /\ [](running_workflows \subseteq DOMAIN tasks)
    /\ [](\A id \in DOMAIN tasks :
              id \in running_workflows <=> tasks[id] # <<>>)
    /\ [][\A id \in DOMAIN tasks :
              \A n \in DOMAIN tasks[id] :
                  ExecFinally(id, n) => id \notin running_workflows']_vars

\* C34 witness: an execution task has ended with an exception that left
\* execute_workflow, and its id is no longer in running_workflows.
RaisedRunLeftRunningWorkflows ==
    \E id \in DOMAIN last_run :
        /\ last_run[id].ended
        /\ last_run[id].returned = "raised"
        /\ tasks[id] = <<>>
        /\ id \notin running_workflows

\* C35: the reaper changes only what it must: a run of cleanup_stale_instances
\* leaves unchanged every Instance that is not RUNNING or whose started_at is
\* not older than the timeout, changes no Step record, changes only status and
\* error_message of the Instances it reaps, and its return value is the number
\* of Instances it changed.
ReaperChangesOnlyStale ==
    [][MonitorCleanup =>
          /\ steps' = steps
          /\ \A id \in DOMAIN instances :
                /\ ( \/ instances[id].status # RUNNING
                     \/ instances[id].started_at = None
                     \/ instances[id].started_at[1] + TimeoutHours >= now ) =>
                        instances'[id] = instances[id]
                /\ \A f \in DOMAIN instances[id] \ {"status", "error_message"} :
                        instances'[id][f] = instances[id][f]
          /\ modified_count(instances, now) =
                Cardinality({id \in DOMAIN instances : instances'[id] # instances[id]})]_vars

\* C35 witness: the reaper has failed an Instance whose Step 1 had completed;
\* the record keeps its started_at, progress and Steps.
ReapedRecordKept ==
    \E id \in DOMAIN instances :
        /\ instances[id].status = FAILED
        /\ instances[id].error_message = TimeoutMessage
        /\ instances[id].started_at # None
        /\ instances[id].completed_at = None
        /\ Len(steps[id]) >= 2
        /\ steps[id][1].status = COMPLETED
        /\ external_updates = 0

\* C36: in every reachable state the Step statuses of an Instance, read in
\* ascending step_number, are zero or more COMPLETED, then at most one RUNNING
\* or FAILED, then zero or more PENDING: a Step that is not PENDING has only
\* COMPLETED Steps before it.
StepStatusShape ==
    \A id \in DOMAIN steps :
        /\ StepStatuses(id) \subseteq {PENDING, RUNNING, COMPLETED, FAILED}
        /\ \A i, j \in DOMAIN steps[id] :
              ( /\ steps[id][i].step_number < steps[id][j].step_number
                /\ steps[id][j].status # PENDING ) =>
                    steps[id][i].status = COMPLETED

\* C36 witness: an execution has ended with Step 1 of several Steps FAILED and
\* every later Step PENDING.
FailedThenPending ==
    \E id \in DOMAIN instances :
        /\ last_run[id].ended
        /\ Len(steps[id]) >= 2
        /\ steps[id][1].status = FAILED
        /\ \A i \in 2..Len(steps[id]) : steps[id][i].status = PENDING

\* C37: in every reachable state an Instance's current_step is between 0 and
\* total_steps and never exceeds the number of its Steps that are COMPLETED
\* (so it is 0 until the first Step has completed).
CurrentStepWithinBounds ==
    \A id \in DOMAIN instances :
        /\ instances[id].current_step \in 0..instances[id].total_steps
        /\ instances[id].current_step <=
              Cardinality({i \in DOMAIN steps[id] : steps[id][i].status = COMPLETED})

\* C38: dispatch liveness: with the scheduler cycling, every Instance that is
\* PENDING is eventually dispatched (an execution task is started for it),
\* also while more Instances are PENDING than one poll takes and new Instances
\* keep being created.
PendingIsDispatched ==
    \A id \in BacklogIds :
        (id \in DOMAIN instances /\ instances[id].status = PENDING)
            ~> (id \in DOMAIN instances /\ tasks[id] # <<>>)

\* C39: in every state an Instance whose status is RUNNING has started_at set,
\* so that the condition of the reaper (RUNNING, started_at before the cutoff)
\* can come to match it.
RunningHasStartedAt ==
    \A id \in DOMAIN instances :
        instances[id].status = RUNNING => instances[id].started_at # None

ExecutionStarts(id) ==
    /\ id \in DOMAIN tasks
    /\ Len(tasks'[id]) > Len(tasks[id])

StepRunsAgain(id) ==
    /\ id \in DOMAIN steps
    /\ \E i \in DOMAIN steps[id] \cap DOMAIN steps'[id] :
            /\ steps[id][i].status \in {COMPLETED, FAILED}
            /\ steps'[id][i].status = RUNNING

\* C40: over the life of an Instance execute_workflow is started for it at most
\* once (never while an execution of it is in flight and never after one
\* ended), and no Step that is COMPLETED or FAILED is set RUNNING again.
ExecutedAtMostOnce ==
    [][\A id \in DOMAIN instances :
            /\ ExecutionStarts(id) => (tasks[id] = <<>> /\ ~last_run[id].ended)
            /\ ~StepRunsAgain(id)]_vars

====
